---- MODULE Spec2Model ----
(***************************************************************************)
(* ico-huny-dev: a client-side image -> .ico converter.                    *)
(*                                                                         *)
(*   utils/icoUtils.ts          createIcoFromPng, the ICO container        *)
(*                              encoder (a pure function on bytes)         *)
(*   components/ImageProcessor  the UI flow: file acquisition, the delay   *)
(*                              timer, size edits, handleDownload (async), *)
(*                              handleReset                                *)
(*                                                                         *)
(* Two specifications share the module:                                    *)
(*   SpecEnc  draws (pngBuffer, width, height) and applies the encoder;    *)
(*   Spec     is the UI flow, whose handleDownload calls the encoder.      *)
(*                                                                         *)
(* Byte buffers are sequences of 0..255; the byte at offset k of a buffer  *)
(* is element k+1 of the sequence.  Strings that the code takes apart      *)
(* (file names, MIME types, number-input text) are sequences of            *)
(* one-character strings.                                                  *)
(***************************************************************************)
EXTENDS Integers, Sequences, FiniteSets, TLC

VARIABLES
    \* ---- encoder call (SpecEnc) ----
    encPngBuffer,       \* the pngBuffer argument of the call
    encWidth,           \* the width argument
    encHeight,          \* the height argument
    encResult,          \* the Blob returned, NoBlob before the call returns
    \* ---- ImageProcessor component state (Spec) ----
    processState,       \* useState<ProcessState>
    originalFile,       \* useState<File | null>
    processedImageUrl,  \* useState<string | null>
    size,               \* useState({width, height})
    error,              \* useState<string | null>
    \* ---- host environment ----
    timers,             \* pending setTimeout callbacks, in firing order
    runs,               \* handleDownload invocations suspended at an await
    liveUrls,           \* ids of the object URLs registered and not revoked
    urlCount,           \* object URLs created for files so far
    lastEvent           \* what the last handler did (calls made, download triggered)

encVars == <<encPngBuffer, encWidth, encHeight, encResult>>
uiVars  == <<processState, originalFile, processedImageUrl, size, error,
             timers, runs, liveUrls, urlCount, lastEvent>>
vars    == <<encVars, uiVars>>

(***************************************************************************)
(* Bounds of the model.                                                    *)
(***************************************************************************)
MaxLen   == 3    \* longest exhaustively enumerated payload
MaxFiles == 3    \* files accepted by processFile in one behaviour

(***************************************************************************)
(* Bytes and buffers.                                                      *)
(***************************************************************************)
Byte == 0..255

\* new ArrayBuffer(n): n zero bytes
NewArrayBuffer(n) == [i \in 1..n |-> 0]

\* The byte at offset off
ByteAt(buf, off) == buf[off + 1]

\* DataView.setUint8(off, v): v is taken modulo 2^8
SetUint8(buf, off, v) == [buf EXCEPT ![off + 1] = v % 256]

\* DataView.setUint16(off, v, littleEndian)
SetUint16(buf, off, v, littleEndian) ==
    LET lo == v % 256
        hi == (v \div 256) % 256
    IN  IF littleEndian
        THEN [buf EXCEPT ![off + 1] = lo, ![off + 2] = hi]
        ELSE [buf EXCEPT ![off + 1] = hi, ![off + 2] = lo]

\* DataView.setUint32(off, v, littleEndian)
SetUint32(buf, off, v, littleEndian) ==
    LET b0 == v % 256
        b1 == (v \div 256) % 256
        b2 == (v \div 65536) % 256
        b3 == (v \div 16777216) % 256
    IN  IF littleEndian
        THEN [buf EXCEPT ![off + 1] = b0, ![off + 2] = b1,
                         ![off + 3] = b2, ![off + 4] = b3]
        ELSE [buf EXCEPT ![off + 1] = b3, ![off + 2] = b2,
                         ![off + 3] = b1, ![off + 4] = b0]

\* Uint8Array.prototype.set(src, off): copy src into buf starting at off
TypedArraySet(buf, src, off) ==
    SubSeq(buf, 1, off) \o src \o SubSeq(buf, off + Len(src) + 1, Len(buf))

(***************************************************************************)
(* createIcoFromPng (utils/icoUtils.ts).                                   *)
(***************************************************************************)
NoBlob == [type |-> "none", bytes |-> <<>>]

\* Mutation: the header counted as 8 bytes
IcoBufferSizeWrong(png) == 24 + Len(png)
\* const icoBufferSize = 22 + pngBuffer.byteLength
IcoBufferSize(png) == 22 + Len(png)

\* Mutation: image type 2 (cursor)
IcoHeaderCursor(buf) ==
    SetUint16(SetUint16(SetUint16(buf, 0, 0, TRUE), 2, 2, TRUE), 4, 1, TRUE)
\* ICO header: reserved 0, image type 1, image count 1
IcoHeader(buf) ==
    SetUint16(SetUint16(SetUint16(buf, 0, 0, TRUE), 2, 1, TRUE), 4, 1, TRUE)

\* Mutation: no sentinel, the value goes to setUint8 as it is
DimByteNoSentinel(d) == d
\* width >= 256 ? 0 : width  (the value handed to setUint8)
DimByte(d) == IF d >= 256 THEN 0 ELSE d

\* Mutation: 24 bits per pixel, planes written big-endian
IcoDirEntryHead24bpp(buf, w, h) ==
    LET b6  == SetUint8(buf, 6, DimByte(w))
        b7  == SetUint8(b6, 7, DimByte(h))
        b8  == SetUint8(b7, 8, 0)
        b9  == SetUint8(b8, 9, 0)
        b10 == SetUint16(b9, 10, 1, FALSE)
    IN  SetUint16(b10, 12, 24, TRUE)
\* Directory entry bytes 6..13: width, height, palette, reserved, planes, bpp
IcoDirEntryHead(buf, w, h) ==
    LET b6  == SetUint8(buf, 6, DimByte(w))
        b7  == SetUint8(b6, 7, DimByte(h))
        b8  == SetUint8(b7, 8, 0)
        b9  == SetUint8(b8, 9, 0)
        b10 == SetUint16(b9, 10, 1, TRUE)
    IN  SetUint16(b10, 12, 32, TRUE)

\* Mutation: the size is written only for a payload that starts like a PNG
IcoDirEntrySizesSniff(buf, png) ==
    SetUint32(SetUint32(buf, 14,
                        IF png # <<>> /\ png[1] = 137 THEN Len(png) ELSE 0, TRUE),
              18, 22, TRUE)
\* Mutation: the littleEndian flag left out
IcoDirEntrySizesBigEndian(buf, png) ==
    SetUint32(SetUint32(buf, 14, Len(png), FALSE), 18, 22, FALSE)
\* Directory entry bytes 14..21: payload size, payload offset
IcoDirEntrySizes(buf, png) ==
    SetUint32(SetUint32(buf, 14, Len(png), TRUE), 18, 22, TRUE)

\* Mutation: the payload copied one byte early
IcoImageDataShifted(buf, png) == TypedArraySet(buf, png, 21)
\* icoBytes.set(pngBytes, 22)
IcoImageData(buf, png) == TypedArraySet(buf, png, 22)

\* createIcoFromPng(pngBuffer, width, height): Blob
createIcoFromPng(png, w, h) ==
    LET buffer == NewArrayBuffer(IcoBufferSize(png))
        b1 == IcoHeader(buffer)
        b2 == IcoDirEntryHead(b1, w, h)
        b3 == IcoDirEntrySizes(b2, png)
        b4 == IcoImageData(b3, png)
    IN  [type |-> "image/x-icon", bytes |-> b4]

(***************************************************************************)
(* Inputs of the encoder specification.                                    *)
(***************************************************************************)
\* Byte values the enumerated payloads are made of (137 = 0x89, PNG's first byte)
PayloadBytes == {0, 137, 255}

\* All sequences over S of length at most n
RECURSIVE SeqsUpTo(_, _)
SeqsUpTo(S, n) ==
    IF n = 0 THEN {<<>>}
    ELSE LET shorter == SeqsUpTo(S, n - 1)
         IN  shorter \cup {Append(p, b) : p \in {q \in shorter : Len(q) = n - 1}, b \in S}

\* Payloads whose length needs more than one byte of the 32-bit size field
LongPayloads == {[i \in 1..n |-> (i * 7) % 256] : n \in {258, 65537}}

Payloads == SeqsUpTo(PayloadBytes, MaxLen) \cup LongPayloads

\* Dimensions handed to the encoder: around the 256 boundary and beyond
EncDims == {1, 2, 32, 255, 256, 257, 512}

(***************************************************************************)
(* Strings as sequences of characters.                                     *)
(***************************************************************************)
Digits == <<"0", "1", "2", "3", "4", "5", "6", "7", "8", "9">>

IsDigit(c) == \E i \in 1..10 : Digits[i] = c

DigitVal(c) == (CHOOSE i \in 1..10 : Digits[i] = c) - 1

IsWhite(c) == c \in {" ", "\t", "\n"}

\* String.prototype.startsWith
StartsWith(s, prefix) ==
    /\ Len(s) >= Len(prefix)
    /\ SubSeq(s, 1, Len(prefix)) = prefix

\* Number -> decimal string, as a template literal formats an integer
RECURSIVE NatToString(_)
NatToString(n) ==
    IF n < 10 THEN <<Digits[n + 1]>>
    ELSE NatToString(n \div 10) \o <<Digits[(n % 10) + 1]>>

NumberToString(n) == IF n < 0 THEN <<"-">> \o NatToString(0 - n) ELSE NatToString(n)

\* String.prototype.split(sep) for a one-character separator
RECURSIVE Split(_, _)
Split(s, sep) ==
    IF \A i \in 1..Len(s) : s[i] # sep THEN <<s>>
    ELSE LET k == CHOOSE i \in 1..Len(s) :
                     s[i] = sep /\ \A j \in 1..(i - 1) : s[j] # sep
         IN  <<SubSeq(s, 1, k - 1)>> \o Split(SubSeq(s, k + 1, Len(s)), sep)

\* Array.prototype.slice(0, -1): all but the last element
SliceDropLast(a) == SubSeq(a, 1, Len(a) - 1)

\* Array.prototype.join(sep)
RECURSIVE Join(_, _)
Join(a, sep) ==
    IF Len(a) = 0 THEN <<>>
    ELSE IF Len(a) = 1 THEN a[1]
    ELSE a[1] \o <<sep>> \o Join(Tail(a), sep)

(***************************************************************************)
(* parseInt(text) with the default radix, for text without a 0x prefix.    *)
(* The result is a record: nan says the result is NaN, val is the integer. *)
(***************************************************************************)
RECURSIVE SkipWhite(_)
SkipWhite(s) == IF s # <<>> /\ IsWhite(Head(s)) THEN SkipWhite(Tail(s)) ELSE s

\* The longest prefix of s made of decimal digits
RECURSIVE DigitPrefix(_)
DigitPrefix(s) ==
    IF s # <<>> /\ IsDigit(Head(s)) THEN <<Head(s)>> \o DigitPrefix(Tail(s)) ELSE <<>>

RECURSIVE DigitsValue(_)
DigitsValue(ds) ==
    IF ds = <<>> THEN 0
    ELSE DigitsValue(SubSeq(ds, 1, Len(ds) - 1)) * 10 + DigitVal(ds[Len(ds)])

parseInt(text) ==
    LET t      == SkipWhite(text)
        signed == t # <<>> /\ Head(t) \in {"-", "+"}
        neg    == t # <<>> /\ Head(t) = "-"
        body   == IF signed THEN Tail(t) ELSE t
        ds     == DigitPrefix(body)
    IN  IF ds = <<>> THEN [nan |-> TRUE, val |-> 0]
        ELSE [nan |-> FALSE, val |-> IF neg THEN 0 - DigitsValue(ds) ELSE DigitsValue(ds)]

\* x || 1 for a number x: NaN and 0 are falsy
OrOne(x) == IF x.nan \/ x.val = 0 THEN 1 ELSE x.val

\* Math.max(1, v)
MathMax1(v) == IF v > 1 THEN v ELSE 1

\* Mutation: Math.max(1, ...) left out
DimFromInputUnclamped(text) == OrOne(parseInt(text))
\* Math.max(1, parseInt(e.target.value) || 1)
DimFromInput(text) == MathMax1(OrOne(parseInt(text)))

(***************************************************************************)
(* The ImageProcessor component (components/ImageProcessor.tsx).           *)
(***************************************************************************)
Null == [null |-> TRUE]

\* const commonIcoSizes = [16, 24, 32, 48, 64, 128, 256]
commonIcoSizes == <<16, 24, 32, 48, 64, 128, 256>>

\* useState({ width: 32, height: 32 })
DefaultSize == [width |-> 32, height |-> 32]

\* Files the user may select or drop: name and MIME type
PngDotted   == [name |-> <<"a", ".", "b", ".", "p", "n", "g">>,
                type |-> <<"i", "m", "a", "g", "e", "/", "p", "n", "g">>]
PngDotless  == [name |-> <<"l", "o", "g", "o">>,
                type |-> <<"i", "m", "a", "g", "e", "/", "p", "n", "g">>]
TextFile    == [name |-> <<"n", ".", "t", "x", "t">>,
                type |-> <<"t", "e", "x", "t", "/", "p", "l", "a", "i", "n">>]
UntypedFile == [name |-> <<"i", "m", "a", "g", "e">>, type |-> <<>>]
Files == {PngDotted, PngDotless, TextFile, UntypedFile}

\* Text a size input's change event may carry (e.target.value)
InputTexts == { <<>>,                       \* empty
                <<"a", "b", "c">>,          \* non-numeric
                <<"0">>,                    \* zero
                <<"-", "5">>,               \* negative
                <<"1", ".", "5">>,          \* fractional
                <<"3", "0", "0">> }         \* above 256

\* Indices of the preset buttons the model clicks: 16x16 and 256x256
PresetButtons == {1, 7}

\* PNG payloads the canvas export may produce
CanvasPngs == { <<137, 80>>, <<137, 80, 78, 71>> }

ImagePrefix == <<"i", "m", "a", "g", "e", "/">>

InvalidTypeMsg == "Invalid file type. Please upload an image."
GenerateFailedMsg == "Failed to generate ICO file. Please try again."

\* What a handler did to the outside: the createIcoFromPng call it made, the
\* download it triggered, the failure its catch block handled
Event(call, download, failure) ==
    [call |-> call, download |-> download, failure |-> failure]

\* A handler that made no call, triggered no download and caught nothing
Quiet == Event(Null, Null, "none")

\* file.type.startsWith('image/')
IsImage(file) == StartsWith(file.type, ImagePrefix)

\* Files accepted so far: each accepted file schedules exactly one timer,
\* and each timer creates exactly one object URL.
Accepted == urlCount + Len(timers)

UiInit ==
    /\ processState = "Idle"
    /\ originalFile = Null
    /\ processedImageUrl = Null
    /\ size = DefaultSize
    /\ error = Null
    /\ timers = <<>>
    /\ runs = <<>>
    /\ liveUrls = {}
    /\ urlCount = 0
    /\ lastEvent = Quiet

\* Mutation: setOriginalFile runs before the MIME type is checked
processFileCheckLate(file) ==
    IF ~IsImage(file)
    THEN /\ originalFile' = file
         /\ error' = [msg |-> InvalidTypeMsg]
         /\ processState' = "Error"
         /\ lastEvent' = Quiet
         /\ UNCHANGED <<processedImageUrl, size, timers, runs, liveUrls, urlCount>>
    ELSE /\ Accepted < MaxFiles
         /\ originalFile' = file
         /\ error' = Null
         /\ processState' = "Processing"
         /\ timers' = Append(timers, file)
         /\ lastEvent' = Quiet
         /\ UNCHANGED <<processedImageUrl, size, runs, liveUrls, urlCount>>
\* processFile(file), lines 24-44; the timer callback is TimerFires
processFile(file) ==
    IF ~IsImage(file)
    THEN /\ error' = [msg |-> InvalidTypeMsg]
         /\ processState' = "Error"
         /\ lastEvent' = Quiet
         /\ UNCHANGED <<originalFile, processedImageUrl, size, timers, runs,
                        liveUrls, urlCount>>
    ELSE /\ Accepted < MaxFiles
         /\ originalFile' = file
         /\ error' = Null
         /\ processState' = "Processing"
         /\ timers' = Append(timers, file)
         /\ lastEvent' = Quiet
         /\ UNCHANGED <<processedImageUrl, size, runs, liveUrls, urlCount>>

\* handleFileChange: the file input is rendered only in the Idle view
handleFileChange ==
    /\ processState = "Idle"
    /\ \E file \in Files : processFile(file)
    /\ UNCHANGED encVars

\* handleDrop: the drop target is rendered only in the Idle view
handleDrop ==
    /\ processState = "Idle"
    /\ \E file \in Files : processFile(file)
    /\ UNCHANGED encVars

\* The setTimeout callback of processFile, lines 39-43
TimerFires ==
    /\ timers # <<>>
    /\ LET file == Head(timers)
           url  == [id |-> urlCount + 1, file |-> file]
       IN  /\ processedImageUrl' = url
           /\ liveUrls' = liveUrls \cup {url.id}
           /\ urlCount' = urlCount + 1
    /\ processState' = "Ready"
    /\ timers' = Tail(timers)
    /\ lastEvent' = Quiet
    /\ UNCHANGED <<originalFile, size, error, runs, encVars>>

\* onChange of the width input, line 134
setWidth ==
    /\ processState = "Ready"
    /\ \E text \in InputTexts :
          size' = [size EXCEPT !.width = DimFromInput(text)]
    /\ lastEvent' = Quiet
    /\ UNCHANGED <<processState, originalFile, processedImageUrl, error,
                   timers, runs, liveUrls, urlCount, encVars>>

\* onChange of the height input, line 136
setHeight ==
    /\ processState = "Ready"
    /\ \E text \in InputTexts :
          size' = [size EXCEPT !.height = DimFromInput(text)]
    /\ lastEvent' = Quiet
    /\ UNCHANGED <<processState, originalFile, processedImageUrl, error,
                   timers, runs, liveUrls, urlCount, encVars>>

\* onClick of a preset button, line 141
setPreset ==
    /\ processState = "Ready"
    /\ \E i \in PresetButtons :
          size' = [width |-> commonIcoSizes[i], height |-> commonIcoSizes[i]]
    /\ lastEvent' = Quiet
    /\ UNCHANGED <<processState, originalFile, processedImageUrl, error,
                   timers, runs, liveUrls, urlCount, encVars>>

\* Mutation: setSize left out of the reset
handleResetKeepSize ==
    /\ processState \in {"Ready", "Error"}
    /\ processState' = "Idle"
    /\ originalFile' = Null
    /\ liveUrls' = IF processedImageUrl # Null
                   THEN liveUrls \ {processedImageUrl.id} ELSE liveUrls
    /\ processedImageUrl' = Null
    /\ error' = Null
    /\ lastEvent' = Quiet
    /\ UNCHANGED <<size, timers, runs, urlCount, encVars>>
\* Mutation: the URL is revoked but setProcessedImageUrl(null) is left out
handleResetKeepUrl ==
    /\ processState \in {"Ready", "Error"}
    /\ processState' = "Idle"
    /\ originalFile' = Null
    /\ liveUrls' = IF processedImageUrl # Null
                   THEN liveUrls \ {processedImageUrl.id} ELSE liveUrls
    /\ size' = DefaultSize
    /\ error' = Null
    /\ lastEvent' = Quiet
    /\ UNCHANGED <<processedImageUrl, timers, runs, urlCount, encVars>>
\* handleReset, lines 104-112
handleReset ==
    /\ processState \in {"Ready", "Error"}
    /\ processState' = "Idle"
    /\ originalFile' = Null
    /\ liveUrls' = IF processedImageUrl # Null
                   THEN liveUrls \ {processedImageUrl.id} ELSE liveUrls
    /\ processedImageUrl' = Null
    /\ size' = DefaultSize
    /\ error' = Null
    /\ lastEvent' = Quiet
    /\ UNCHANGED <<timers, runs, urlCount, encVars>>

(***************************************************************************)
(* handleDownload, lines 60-102.  The async function runs to its first     *)
(* await inside the click; each later action is one continuation.  A run   *)
(* reads processedImageUrl, size and originalFile from the closure of the  *)
(* render in which the button was clicked.  The model follows one          *)
(* suspended invocation at a time: the Download button is clicked again    *)
(* only after the previous invocation has settled.                         *)
(***************************************************************************)
Remove(seq, i) == SubSeq(seq, 1, i - 1) \o SubSeq(seq, i + 1, Len(seq))

\* originalFile?.name.split('.').slice(0, -1).join('.') || 'icon'
OriginalName(file) ==
    IF file = Null THEN <<"i", "c", "o", "n">>
    ELSE LET base == Join(SliceDropLast(Split(file.name, ".")), ".")
         IN  IF base = <<>> THEN <<"i", "c", "o", "n">> ELSE base

\* `${originalName}-${size.width}x${size.height}.ico`
DownloadName(file, sz) ==
    OriginalName(file) \o <<"-">> \o NumberToString(sz.width) \o <<"x">>
        \o NumberToString(sz.height) \o <<".", "i", "c", "o">>

\* Mutation: setProcessState left out of the catch block
CatchErrorMessageOnly ==
    /\ error' = [msg |-> GenerateFailedMsg]
    /\ UNCHANGED processState
\* The catch block, lines 97-101
CatchError ==
    /\ error' = [msg |-> GenerateFailedMsg]
    /\ processState' = "Error"

\* The click: lines 60-76, up to the await of the image load
handleDownload ==
    /\ processState = "Ready"
    /\ runs = <<>>
    /\ IF processedImageUrl = Null
       THEN /\ lastEvent' = Quiet
            /\ UNCHANGED <<processState, error, runs>>
       ELSE \E ctxOk \in BOOLEAN :
               IF ctxOk
               THEN /\ runs' = Append(runs,
                               [pc           |-> "load",
                                url          |-> processedImageUrl,
                                size         |-> size,
                                originalFile |-> originalFile,
                                canvas       |-> [width  |-> size.width,
                                                  height |-> size.height],
                                png          |-> <<>>])
                    /\ lastEvent' = Quiet
                    /\ UNCHANGED <<processState, error>>
               ELSE /\ CatchError
                    /\ lastEvent' = Event(Null, Null, "context")
                    /\ UNCHANGED runs
    /\ UNCHANGED <<originalFile, processedImageUrl, size, timers, liveUrls,
                   urlCount, encVars>>

\* img.onload / img.onerror, then drawImage and canvas.toBlob: lines 73-80
ImageLoadSettles ==
    /\ \E i \in 1..Len(runs) :
          /\ runs[i].pc = "load"
          /\ \E loaded \in BOOLEAN :
                IF loaded
                THEN /\ runs' = [runs EXCEPT ![i].pc = "toBlob"]
                     /\ lastEvent' = Quiet
                     /\ UNCHANGED <<processState, error>>
                ELSE /\ runs' = Remove(runs, i)
                     /\ CatchError
                     /\ lastEvent' = Event(Null, Null, "load")
    /\ UNCHANGED <<originalFile, processedImageUrl, size, timers, liveUrls,
                   urlCount, encVars>>

\* The toBlob callback, then pngBlob.arrayBuffer(): lines 80-83
ToBlobSettles ==
    /\ \E i \in 1..Len(runs) :
          /\ runs[i].pc = "toBlob"
          /\ \E pngBlob \in {[bytes |-> p] : p \in CanvasPngs} \cup {Null} :
                IF pngBlob # Null
                THEN /\ runs' = [runs EXCEPT ![i].pc = "arrayBuffer",
                                             ![i].png = pngBlob.bytes]
                     /\ lastEvent' = Quiet
                     /\ UNCHANGED <<processState, error>>
                ELSE /\ runs' = Remove(runs, i)
                     /\ CatchError
                     /\ lastEvent' = Event(Null, Null, "toBlob")
    /\ UNCHANGED <<originalFile, processedImageUrl, size, timers, liveUrls,
                   urlCount, encVars>>

\* Mutation: the call reads the size state of the latest render
CallSizeLive(run) == size
\* The size.width, size.height of line 86: the size of the run's closure
CallSize(run) == run.size

\* The ways lines 83-95 end: arrayBuffer() rejects; new ArrayBuffer inside
\* createIcoFromPng throws a RangeError (no memory); the download is triggered
SettleOutcomes == {"arrayBuffer", "assembly", "ok"}

\* arrayBuffer() settles; createIcoFromPng; the download link: lines 83-95
ArrayBufferSettles ==
    /\ \E i \in 1..Len(runs) :
          /\ runs[i].pc = "arrayBuffer"
          /\ LET run       == runs[i]
                 pngBuffer == run.png
                 call      == [pngBuffer |-> pngBuffer,
                               width     |-> CallSize(run).width,
                               height    |-> CallSize(run).height,
                               canvas    |-> run.canvas]
                 icoBlob   == createIcoFromPng(pngBuffer, call.width, call.height)
             IN  \E outcome \in SettleOutcomes :
                    CASE outcome = "arrayBuffer" ->
                            /\ CatchError
                            /\ lastEvent' = Event(Null, Null, "arrayBuffer")
                      [] outcome = "assembly" ->
                            /\ CatchError
                            /\ lastEvent' = Event(call, Null, "assembly")
                      [] outcome = "ok" ->
                            /\ lastEvent' =
                                  Event(call,
                                        [filename |-> DownloadName(run.originalFile,
                                                                   run.size),
                                         href     |-> icoBlob,
                                         source   |-> run.url],
                                        "none")
                            /\ UNCHANGED <<processState, error>>
          /\ runs' = Remove(runs, i)
    /\ UNCHANGED <<originalFile, processedImageUrl, size, timers, liveUrls,
                   urlCount, encVars>>

(***************************************************************************)
(* Specifications.                                                         *)
(***************************************************************************)
\* No encoder call is being observed
EncIdle ==
    /\ encPngBuffer = <<>>
    /\ encWidth = 32
    /\ encHeight = 32
    /\ encResult = NoBlob

Init == UiInit /\ EncIdle

Next ==
    \/ handleFileChange
    \/ handleDrop
    \/ TimerFires
    \/ setWidth
    \/ setHeight
    \/ setPreset
    \/ handleDownload
    \/ ImageLoadSettles
    \/ ToBlobSettles
    \/ ArrayBufferSettles
    \/ handleReset

Spec == Init /\ [][Next]_vars

\* The encoder alone: the arguments are drawn, the call returns its Blob
InitEnc ==
    /\ encPngBuffer \in Payloads
    /\ encWidth \in EncDims
    /\ encHeight \in EncDims
    /\ encResult = NoBlob
    /\ UiInit

EncodeCall ==
    /\ encResult = NoBlob
    /\ encResult' = createIcoFromPng(encPngBuffer, encWidth, encHeight)
    /\ UNCHANGED <<encPngBuffer, encWidth, encHeight, uiVars>>

NextEnc == EncodeCall

SpecEnc == InitEnc /\ [][NextEnc]_vars

(***************************************************************************)
(* Claims about createIcoFromPng, checked under SpecEnc.                   *)
(***************************************************************************)
Returned == encResult # NoBlob

\* C1: for every payload (the empty one included) and every width and
\* height, the encoder's output is exactly 22 + len(payload) bytes long.
C1_SizeInvariant ==
    Returned => Len(encResult.bytes) = 22 + Len(encPngBuffer)

C1_Witness == Returned /\ encPngBuffer = <<>> /\ Len(encResult.bytes) = 22

\* C2: bytes [22, 22+len(p)) of the output are the payload p, byte for
\* byte and in order, for every p including the empty one.
C2_PayloadPlacement ==
    Returned =>
        /\ Len(encResult.bytes) >= 22 + Len(encPngBuffer)
        /\ SubSeq(encResult.bytes, 22 + 1, 22 + Len(encPngBuffer)) = encPngBuffer

C2_Witness ==
    /\ Returned
    /\ encPngBuffer = <<137, 0, 255>>
    /\ SubSeq(encResult.bytes, 23, 25) = <<137, 0, 255>>

\* C3: the byte at offset 6 is width when width < 256 and 0 when
\* width >= 256; the byte at offset 7 is height when height < 256 and 0
\* when height >= 256; each independently of the other and of the payload.
C3_SentinelMapping ==
    Returned =>
        /\ ByteAt(encResult.bytes, 6) = (IF encWidth < 256 THEN encWidth ELSE 0)
        /\ ByteAt(encResult.bytes, 7) = (IF encHeight < 256 THEN encHeight ELSE 0)

C3_Witness ==
    /\ Returned
    /\ encWidth = 257 /\ encHeight = 255
    /\ ByteAt(encResult.bytes, 6) = 0 /\ ByteAt(encResult.bytes, 7) = 255

\* C4: bytes [0,6) of every output are 0,0,1,0,1,0: reserved = 0,
\* image type = 1, image count = 1, each a little-endian 16-bit value.
C4_HeaderInvariant ==
    Returned => SubSeq(encResult.bytes, 1, 6) = <<0, 0, 1, 0, 1, 0>>

C4_Witness ==
    /\ Returned
    /\ Len(encPngBuffer) = 258 /\ encWidth = 512
    /\ ByteAt(encResult.bytes, 2) = 1 /\ ByteAt(encResult.bytes, 4) = 1

\* The value of the four bytes at offsets off..off+3 read as a
\* little-endian unsigned 32-bit integer (byte off least significant)
ReadUint32LE(bytes, off) ==
    ByteAt(bytes, off) + 256 * ByteAt(bytes, off + 1)
        + 65536 * ByteAt(bytes, off + 2) + 16777216 * ByteAt(bytes, off + 3)

\* C5: offsets 14..17 hold len(p) as a little-endian 32-bit integer and
\* offsets 18..21 hold 22 as one, i.e. 22,0,0,0.
C5_SizeAndOffsetFields ==
    Returned =>
        /\ \A k \in 14..21 : ByteAt(encResult.bytes, k) \in Byte
        /\ ReadUint32LE(encResult.bytes, 14) = Len(encPngBuffer)
        /\ SubSeq(encResult.bytes, 19, 22) = <<22, 0, 0, 0>>

C5_Witness ==
    /\ Returned
    /\ Len(encPngBuffer) = 258
    /\ SubSeq(encResult.bytes, 15, 22) = <<2, 1, 0, 0, 22, 0, 0, 0>>

(***************************************************************************)
(* Claims about the UI flow, checked under Spec.                           *)
(***************************************************************************)
\* C6: once processState is Error it stays Error until handleReset runs;
\* no other event moves the flow out of Error, and the only state that
\* follows Error is Idle.
C6_ErrorLeftOnlyByReset ==
    [][processState = "Error" =>
          \/ processState' = "Error"
          \/ processState' = "Idle" /\ handleReset]_vars

\* C7: Processing is entered only from Idle and Ready is entered only
\* from Processing.
C7_TransitionsOnly ==
    [][/\ (processState' = "Processing" /\ processState # "Processing")
              => processState = "Idle"
       /\ (processState' = "Ready" /\ processState # "Ready")
              => processState = "Processing"]_vars

\* C8: on every call handleDownload makes to createIcoFromPng, width and
\* height are integers >= 1, whatever size edits and resets came before.
C8_CallDimsAtLeastOne ==
    lastEvent.call # Null =>
        /\ lastEvent.call.width \in Nat /\ lastEvent.call.width >= 1
        /\ lastEvent.call.height \in Nat /\ lastEvent.call.height >= 1

C8_Witness ==
    /\ lastEvent.call # Null
    /\ lastEvent.call.width = 1
    /\ lastEvent.call.height = 1

\* C9: in every reachable state size.width <= 256 and size.height <= 256,
\* so createIcoFromPng is never called with a width or height above 256.
C9_DimsAtMost256 ==
    /\ size.width <= 256
    /\ size.height <= 256
    /\ lastEvent.call # Null =>
          lastEvent.call.width <= 256 /\ lastEvent.call.height <= 256

\* The name with its final '.'-suffix removed; the whole name when it
\* contains no '.'
BaseNameOf(name) ==
    IF \A i \in 1..Len(name) : name[i] # "." THEN name
    ELSE LET k == CHOOSE i \in 1..Len(name) :
                     name[i] = "." /\ \A j \in (i + 1)..Len(name) : name[j] # "."
         IN  SubSeq(name, 1, k - 1)

\* C10: every download is named <original-base-name>-<width>x<height>.ico
\* with the width and height passed to createIcoFromPng in the same call
\* and the base name of the acquired file.
C10_DownloadName ==
    lastEvent.download # Null =>
        lastEvent.download.filename =
            BaseNameOf(lastEvent.download.source.file.name) \o <<"-">>
                \o NumberToString(lastEvent.call.width) \o <<"x">>
                \o NumberToString(lastEvent.call.height) \o <<".", "i", "c", "o">>

\* C11: a file whose MIME type does not start with 'image/' is rejected
\* before any processing begins: the flow does not enter Processing, no
\* delay timer is scheduled, originalFile and processedImageUrl are left
\* unchanged, and a non-empty error message is set.
C11_InvalidTypeRejected ==
    [][\A file \in Files :
          (~IsImage(file) /\ processState = "Idle" /\ processFile(file)) =>
              /\ processState' # "Processing"
              /\ timers' = timers
              /\ originalFile' = originalFile
              /\ processedImageUrl' = processedImageUrl
              /\ error' # Null
              /\ error'.msg # ""]_vars

C11_Witness ==
    /\ processState = "Error"
    /\ error = [msg |-> InvalidTypeMsg]
    /\ originalFile = Null
    /\ timers = <<>>
    /\ urlCount = 0

\* C12: when a step of handleDownload fails, the flow is in Error with the
\* generic message, that run triggers no download (it has ended), and when
\* the canvas context or the PNG export failed createIcoFromPng was not
\* called.
C12_FailureGoesToError ==
    lastEvent.failure # "none" =>
        /\ processState = "Error"
        /\ error = [msg |-> GenerateFailedMsg]
        /\ lastEvent.download = Null
        /\ runs = <<>>
        /\ lastEvent.failure \in {"context", "toBlob"} => lastEvent.call = Null

C12_Witness ==
    /\ lastEvent.failure = "toBlob"
    /\ processState = "Error"
    /\ processedImageUrl # Null

(***************************************************************************)
(* More claims about createIcoFromPng, checked under SpecEnc.              *)
(***************************************************************************)
\* C13: bytes 8..13 of every output are constant: palette colour count 0,
\* reserved 0, colour planes 1 and bits per pixel 32 (both little-endian).
C13_ConstantEntryFields ==
    Returned => SubSeq(encResult.bytes, 9, 14) = <<0, 0, 1, 0, 32, 0>>

C13_Witness ==
    /\ Returned
    /\ encWidth = 256 /\ encHeight = 256 /\ Len(encPngBuffer) = MaxLen
    /\ ByteAt(encResult.bytes, 10) = 1 /\ ByteAt(encResult.bytes, 12) = 32

\* C14: the encoder does not inspect the payload: every payload of the same
\* length gives, with the same width and height, the same first 22 bytes;
\* and the call returns an icon Blob whatever bytes the payload holds.
C14_PayloadNotInspected ==
    Returned =>
        /\ encResult.type = "image/x-icon"
        /\ \A other \in Payloads :
              Len(other) = Len(encPngBuffer) =>
                 SubSeq(createIcoFromPng(other, encWidth, encHeight).bytes, 1, 22)
                    = SubSeq(encResult.bytes, 1, 22)

C14_Witness ==
    /\ Returned
    /\ encPngBuffer = <<255, 0>>
    /\ encResult.type = "image/x-icon"
    /\ SubSeq(encResult.bytes, 15, 18) = <<2, 0, 0, 0>>

(***************************************************************************)
(* More claims about the UI flow, checked under Spec.                      *)
(***************************************************************************)
\* C16: after processFile accepts an image the flow reaches Ready holding an
\* object URL of that same accepted file.  The step into Ready is stated
\* here: the flow that is Processing a file enters Ready with that file's URL.
C16_ReadyHoldsAcceptedFile ==
    [][(processState = "Processing" /\ processState' = "Ready") =>
          /\ processedImageUrl' # Null
          /\ processedImageUrl'.file = originalFile]_vars

\* C17: handleReset restores the initial state: processState = Idle,
\* originalFile = null, processedImageUrl = null, error = null, size = 32x32.
C17_ResetRestoresInitial ==
    [][handleReset =>
          /\ processState' = "Idle"
          /\ originalFile' = Null
          /\ processedImageUrl' = Null
          /\ error' = Null
          /\ size' = [width |-> 32, height |-> 32]]_vars

C17_Witness ==
    /\ processState = "Idle"
    /\ urlCount >= 1
    /\ runs # <<>>
    /\ runs[1].size # DefaultSize
    /\ size = DefaultSize /\ originalFile = Null
    /\ processedImageUrl = Null /\ error = Null

\* C18: within one handleDownload run the width and height passed to
\* createIcoFromPng are the dimensions of the canvas the PNG was rendered
\* on, also when the size was edited while the run was suspended.
C18_CallDimsAreCanvasDims ==
    lastEvent.call # Null =>
        /\ lastEvent.call.width = lastEvent.call.canvas.width
        /\ lastEvent.call.height = lastEvent.call.canvas.height

C18_Witness ==
    /\ lastEvent.download # Null
    /\ processState = "Ready"
    /\ processedImageUrl = lastEvent.download.source
    /\ size.width # lastEvent.call.width
    /\ size.height # lastEvent.call.height

\* C19: a download is triggered only while processState is Ready; a run
\* started before handleReset triggers none after the reset.
C19_DownloadOnlyWhenReady ==
    lastEvent.download # Null => processState = "Ready"

\* C20: Ready implies processedImageUrl is non-null, and Idle implies it
\* is null.
C20_UrlMatchesState ==
    /\ processState = "Ready" => processedImageUrl # Null
    /\ processState = "Idle" => processedImageUrl = Null

C20_Witness ==
    /\ processState = "Ready"
    /\ processedImageUrl # Null
    /\ originalFile = Null
    /\ urlCount = 2

====
